---- MODULE Spec2Model ----
(***************************************************************************)
(* The concurrent classification pipeline of rlcheckmt.py: the coordinator *)
(* (main), num_worker_threads workers, one CSVWriter thread per output     *)
(* file and the IOCStat thread, as one state machine.  A Python dict is a  *)
(* TLA+ function on its keys; a queue.Queue is its FIFO content together   *)
(* with its unfinished_tasks counter; every thread has a position (pc).    *)
(* One action is one step of one thread between two accesses of shared     *)
(* state.                                                                  *)
(***************************************************************************)
EXTENDS Integers, Sequences, FiniteSets, TLC

\* ------------------------------------------------------------------ bounds
MaxRecords == 2
MaxWorkers == 2
MaxCategories == 2
MaxRiskLevel == 10

\* ------------------------------------------------------- program constants
SUPPORTED_THREAT_TYPES == {"IP Address", "Domain", "URL"}
MIN_BLOCKED_RISK_LEVEL == 8
BLOCKED_CATEGORY_IDS == {17, 18, 43, 44}

\* The three CSVWriter objects of main, in the order they are built and closed.
SinkOrder == <<"blocked", "policy", "error">>
Sinks == {"blocked", "policy", "error"}
Workers == 1..MaxWorkers

\* The keys stats() copies, in the order it reads them.
StatKeys == <<"ioc_total", "ioc_blocked", "ioc_policy", "ioc_error">>

\* ------------------------------------------------- the external classifier
\* What requests.get does for an indicator: it raises RequestException, or it
\* returns a response with a status code and (for 200) a JSON body.
\* hasCategories: "categorization" and "categories" are in the body;
\* hasLevel: "threatRiskLevel" and "level" are in the body.
NoBody == [hasCategories |-> FALSE, categories |-> <<>>, hasLevel |-> FALSE, level |-> 0]

Raises == [raises |-> TRUE, status_code |-> 0] @@ NoBody

Status(code) == [raises |-> FALSE, status_code |-> code] @@ NoBody

Ok(cats, hasLevel, level) ==
    [raises |-> FALSE, status_code |-> 200, hasCategories |-> TRUE,
     categories |-> cats, hasLevel |-> hasLevel, level |-> level]

\* A deterministic classifier: the response is a function of the indicator.
Classifier(ioc) ==
    CASE ioc = "8.8.8.8"        -> Ok(<<[id |-> 38, name |-> "Technology/Internet"]>>, TRUE, 9)
      [] ioc = "example.org"    -> Ok(<<[id |-> 27, name |-> "Education"],
                                        [id |-> 49, name |-> "Reference"]>>, TRUE, 2)
      [] ioc = "phish.example"  -> Ok(<<[id |-> 18, name |-> "Phishing"]>>, TRUE, 5)
      [] ioc = "edge8.example"  -> Ok(<<>>, TRUE, 8)
      [] ioc = "edge7.example"  -> Ok(<<>>, TRUE, 7)
      [] ioc = "bare.example"   -> [raises |-> FALSE, status_code |-> 200] @@ NoBody
      [] ioc = "bad request"    -> Status(400)
      [] ioc = "unauthorized"   -> Status(401)
      [] ioc = "ratelimited"    -> Status(429)
      [] ioc = "servererror"    -> Status(500)
      [] ioc = "unreachable"    -> Raises
      [] OTHER                  -> Status(400)

\* ------------------------------------------------------------------ rlcheck
RECURSIVE CategoryNames(_)
CategoryNames(cats) ==
    IF cats = <<>> THEN <<>>
    ELSE <<Head(cats).name>> \o CategoryNames(Tail(cats))

AnyBlockedCategory(cats) ==
    \E k \in 1..Len(cats) : cats[k].id \in BLOCKED_CATEGORY_IDS

\* Mutant of rlcheck: the risk level must exceed the threshold.
rlcheck_StrictThreshold(r) ==
    IF r.raises THEN [raised |-> TRUE]
    ELSE IF r.status_code = 200 THEN
        [raised    |-> FALSE,
         error     |-> 0,
         blocked   |-> IF \/ (r.hasCategories /\ AnyBlockedCategory(r.categories))
                          \/ (r.hasLevel /\ r.level > MIN_BLOCKED_RISK_LEVEL)
                       THEN 1 ELSE 0,
         risklevel |-> IF r.hasLevel THEN r.level ELSE 0,
         category  |-> IF r.hasCategories THEN CategoryNames(r.categories) ELSE <<>>]
    ELSE
        [raised    |-> FALSE,
         error     |-> IF r.status_code \in {400, 401, 429} THEN r.status_code ELSE 0,
         blocked   |-> 0,
         risklevel |-> 0,
         category  |-> <<>>]

\* rlcheck(ioc) on the response r that requests.get gives for ioc.  When
\* requests.get raises, the except clause stores the exception in ret['error']
\* and the next statement reads the unassigned local `response`: rlcheck raises
\* (UnboundLocalError) and returns nothing.
rlcheck(r) ==
    IF r.raises THEN [raised |-> TRUE]
    ELSE IF r.status_code = 200 THEN
        [raised    |-> FALSE,
         error     |-> 0,
         blocked   |-> IF \/ (r.hasCategories /\ AnyBlockedCategory(r.categories))
                          \/ (r.hasLevel /\ r.level >= MIN_BLOCKED_RISK_LEVEL)
                       THEN 1 ELSE 0,
         risklevel |-> IF r.hasLevel THEN r.level ELSE 0,
         category  |-> IF r.hasCategories THEN CategoryNames(r.categories) ELSE <<>>]
    ELSE
        [raised    |-> FALSE,
         error     |-> IF r.status_code \in {400, 401, 429} THEN r.status_code ELSE 0,
         blocked   |-> 0,
         risklevel |-> 0,
         category  |-> <<>>]

\* The loop of do_work that joins the category names with ', '.
RECURSIVE JoinCategories(_, _)
JoinCategories(categories, names) ==
    IF names = <<>> THEN categories
    ELSE JoinCategories(IF categories = "" THEN Head(names)
                        ELSE categories \o ", " \o Head(names),
                        Tail(names))

\* Mutant of Augment: BC_Category is the last category name only.
Augment_LastCategory(item, ret) ==
    [BC_RiskLevel |-> ret.risklevel,
     BC_Category  |-> IF ret.category = <<>> THEN ""
                      ELSE ret.category[Len(ret.category)]] @@ item

\* item.update({'BC_RiskLevel': ..., 'BC_Category': ...}): the new keys win.
Augment(item, ret) ==
    [BC_RiskLevel |-> ret.risklevel,
     BC_Category  |-> JoinCategories("", ret.category)] @@ item

\* -------------------------------------------------------------------- state
VARIABLES
    input,               \* the rows of the input file, in file order
    num_worker_threads,  \* --threads
    cantOpen,            \* the output files whose open() raises OSError
    service,             \* what requests.get does, per indicator
    mpc, mi, row,        \* main: position, index into SinkOrder, next input row
    started,             \* main: number of worker threads started
    ret, line,           \* main: the dict stats() is filling, the values logged
    q, q_unfinished,     \* the module-level work queue and its unfinished_tasks
    shutdown_event,
    wpc, witem, wret,    \* worker: position, item, result of rlcheck
    spc, sdata,          \* CSVWriter thread: position, row taken from its queue
    squeue, sunfinished, \* CSVWriter.queue and its unfinished_tasks
    sfinished,           \* CSVWriter.finished
    sfile, srows,        \* the output file: absent/open/closed, and its data rows
    kpc, kdata,          \* IOCStat thread: position, event taken from its queue
    stat_queue, stat_unfinished, stat_finished,
    ioc_blocked, ioc_policy, ioc_error, ioc_total,
    enqueued,            \* history: ids of the rows put on q, in order
    classified,          \* history: per row id, the number of rlcheck calls for it
    submitted,           \* history: per CSVWriter, the rows given to write(), in order
    updates              \* history: per row id, the event types given to stat.update()

mainVars   == <<mpc, mi, row, started, ret, line>>
envVars    == <<input, num_worker_threads, cantOpen, service>>
qVars      == <<q, q_unfinished>>
workerVars == <<wpc, witem, wret>>
sinkQVars  == <<squeue, sunfinished>>
sinkVars   == <<spc, sdata, squeue, sunfinished, sfinished, sfile, srows>>
statQVars  == <<stat_queue, stat_unfinished>>
counters   == <<ioc_blocked, ioc_policy, ioc_error, ioc_total>>
statVars   == <<kpc, kdata, stat_queue, stat_unfinished, stat_finished, counters>>
histVars   == <<enqueued, classified, submitted, updates>>
vars == <<envVars, mainVars, qVars, shutdown_event, workerVars, sinkVars,
          statVars, histVars>>

\* ------------------------------------------------------------------- inputs
Row(type, ioc) == [ThreatType |-> type, Indicator |-> ioc]

\* One row per way a row can go: blocked, policy, error result, unsupported
\* type, and a classifier call that raises.
Rows ==
    {Row("IP Address", "8.8.8.8"), Row("Domain", "example.org"),
     Row("URL", "unauthorized"), Row("File Hash", "d41d8cd98f00"),
     Row("Domain", "unreachable")}

Inputs == UNION {[1..n -> Rows] : n \in 0..MaxRecords}

NoItem == [id |-> 0]
NoRet == [raised |-> FALSE]
NoData == [type |-> "none"]
Ids == 1..Len(input)

\* The state when main starts: nothing opened, nothing started.
Start ==
    /\ mpc = "CSVWriter" /\ mi = 1 /\ row = 1 /\ started = 0
    /\ ret = <<>> /\ line = <<>>
    /\ q = <<>> /\ q_unfinished = 0
    /\ shutdown_event = FALSE
    /\ wpc = [w \in Workers |-> "unstarted"]
    /\ witem = [w \in Workers |-> NoItem]
    /\ wret = [w \in Workers |-> NoRet]
    /\ spc = [s \in Sinks |-> "unstarted"]
    /\ sdata = [s \in Sinks |-> NoItem]
    /\ squeue = [s \in Sinks |-> <<>>]
    /\ sunfinished = [s \in Sinks |-> 0]
    /\ sfinished = [s \in Sinks |-> FALSE]
    /\ sfile = [s \in Sinks |-> "absent"]
    /\ srows = [s \in Sinks |-> <<>>]
    /\ kpc = "unstarted" /\ kdata = NoData
    /\ stat_queue = <<>> /\ stat_unfinished = 0 /\ stat_finished = FALSE
    /\ ioc_blocked = 0 /\ ioc_policy = 0 /\ ioc_error = 0 /\ ioc_total = 0
    /\ enqueued = <<>>
    /\ classified = [i \in Ids |-> 0]
    /\ submitted = [s \in Sinks |-> <<>>]
    /\ updates = [i \in Ids |-> <<>>]

Indicators == {r.Indicator : r \in Rows}

\* Every input of up to MaxRecords rows, every worker count, every output file
\* that may fail to open, against the classifier above.
Init ==
    /\ input \in Inputs
    /\ num_worker_threads \in 1..MaxWorkers
    /\ cantOpen \in {{}} \cup {{s} : s \in Sinks}
    /\ service = [ioc \in Indicators |-> Classifier(ioc)]
    /\ Start

\* ---------------------------------------- any response of the classifier
\* Names of the category ids, from the table in the source.
CategoryName(id) ==
    CASE id = 17 -> "Hacking"
      [] id = 18 -> "Phishing"
      [] id = 38 -> "Technology/Internet"
      [] id = 43 -> "Malicious Sources/Malnets"
      [] id = 44 -> "Malicious Outbound Data/Botnets"

CategoryIds == {17, 18, 38, 43, 44}

Categories == {[id |-> c, name |-> CategoryName(c)] : c \in CategoryIds}

StatusCodes == {400, 401, 403, 404, 429, 500, 503}

\* Every response: a 200 with up to MaxCategories categories (or none in the
\* body) and a risk level up to MaxRiskLevel (or none in the body), every
\* other status, and a call that raises.
Responses ==
    {[raises |-> FALSE, status_code |-> 200, hasCategories |-> hc,
      categories |-> cats, hasLevel |-> hl, level |-> lv] :
        hc \in BOOLEAN, hl \in BOOLEAN, lv \in 0..MaxRiskLevel,
        cats \in UNION {[1..n -> Categories] : n \in 0..MaxCategories}}
    \cup {Status(c) : c \in StatusCodes}
    \cup {Raises}

\* A body without the key has no value under it.
WellFormed(r) ==
    /\ ~r.hasCategories => r.categories = <<>>
    /\ ~r.hasLevel => r.level = 0

\* One worker and one row of supported type whose indicator may get any
\* response; and, for the rest of main, the empty input and a row of
\* unsupported type.
InitAnyResponse ==
    /\ num_worker_threads = 1
    /\ cantOpen = {}
    /\ \/ /\ input = <<Row("URL", "probe")>>
          /\ service \in [{"probe"} -> {r \in Responses : WellFormed(r)}]
       \/ /\ input \in {<<>>, <<Row("File Hash", "probe")>>}
          /\ service = [ioc \in {"probe"} |-> Status(400)]
    /\ Start

\* ------------------------------------------------- the two library calls
\* CSVWriter.write(data): self.queue.put(data).
CSVWriter_write(s, data) ==
    /\ squeue' = [squeue EXCEPT ![s] = Append(@, data)]
    /\ sunfinished' = [sunfinished EXCEPT ![s] = @ + 1]
    /\ submitted' = [submitted EXCEPT ![s] = Append(@, data)]

\* IOCStat.update(data): self.queue.put(data), for the row with this id.
IOCStat_update(id, type) ==
    /\ stat_queue' = Append(stat_queue, [type |-> type])
    /\ stat_unfinished' = stat_unfinished + 1
    /\ updates' = [updates EXCEPT ![id] = Append(@, type)]

\* --------------------------------------------------------------------- main
\* csv_X = CSVWriter(outputfile_X, fieldnames, "w"): open the file, write the
\* header, start the writer thread.  An open() that raises ends main with an
\* uncaught exception; the threads already started keep running.
MainCSVWriter ==
    /\ mpc = "CSVWriter"
    /\ Len(input) > 0
    /\ LET s == SinkOrder[mi] IN
         IF s \in cantOpen
         THEN /\ mpc' = "aborted"
              /\ UNCHANGED <<mi, sfile, spc>>
         ELSE /\ sfile' = [sfile EXCEPT ![s] = "open"]
              /\ spc' = [spc EXCEPT ![s] = "loop"]
              /\ IF mi < Len(SinkOrder)
                 THEN mi' = mi + 1 /\ mpc' = "CSVWriter"
                 ELSE mi' = 1 /\ mpc' = "IOCStat"
    /\ UNCHANGED <<envVars, row, started, ret, line, qVars, shutdown_event,
                   workerVars, sdata, squeue, sunfinished, sfinished, srows,
                   statVars, histVars>>

\* The input file has no data row: the loop that sets `fieldnames` from the
\* first row never runs, and the first CSVWriter(outputfile_blocked,
\* fieldnames, "w") reads the unassigned local.  main ends with
\* UnboundLocalError before any file is opened or any thread started.
MainNoFieldnames ==
    /\ mpc = "CSVWriter"
    /\ Len(input) = 0
    /\ mpc' = "aborted"
    /\ UNCHANGED <<envVars, mi, row, started, ret, line, qVars, shutdown_event,
                   workerVars, sinkVars, statVars, histVars>>

\* stat = IOCStat(status_update_interval); shutdown_event = threading.Event().
MainIOCStat ==
    /\ mpc = "IOCStat"
    /\ kpc' = "loop"
    /\ mpc' = "threads"
    /\ UNCHANGED <<envVars, mi, row, started, ret, line, qVars, shutdown_event,
                   workerVars, sinkVars, kdata, stat_queue, stat_unfinished,
                   stat_finished, counters, histVars>>

\* One turn of `for i in range(num_worker_threads)`: t.start().
MainStartWorker ==
    /\ mpc = "threads"
    /\ started < num_worker_threads
    /\ started' = started + 1
    /\ wpc' = [wpc EXCEPT ![started + 1] = "loop"]
    /\ mpc' = IF started + 1 = num_worker_threads THEN "fill" ELSE "threads"
    /\ UNCHANGED <<envVars, mi, row, ret, line, qVars, shutdown_event, witem,
                   wret, sinkVars, statVars, histVars>>

\* Mutant of MainPut: every row is put on the queue, whatever its ThreatType.
MainPut_AnyType ==
    /\ mpc = "fill"
    /\ row <= Len(input)
    /\ q' = Append(q, [id |-> row] @@ input[row])
    /\ q_unfinished' = q_unfinished + 1
    /\ enqueued' = Append(enqueued, row)
    /\ row' = row + 1
    /\ UNCHANGED <<envVars, mpc, mi, started, ret, line, shutdown_event,
                   workerVars, sinkVars, statVars, classified, submitted,
                   updates>>

\* One turn of `for row in csv_reader` for a supported row: q.put(row).
MainPut ==
    /\ mpc = "fill"
    /\ row <= Len(input)
    /\ input[row].ThreatType \in SUPPORTED_THREAT_TYPES
    /\ q' = Append(q, [id |-> row] @@ input[row])
    /\ q_unfinished' = q_unfinished + 1
    /\ enqueued' = Append(enqueued, row)
    /\ row' = row + 1
    /\ UNCHANGED <<envVars, mpc, mi, started, ret, line, shutdown_event,
                   workerVars, sinkVars, statVars, classified, submitted,
                   updates>>

\* ... for an unsupported row: csv_error.write(row) ...
MainWriteError ==
    /\ mpc = "fill"
    /\ row <= Len(input)
    /\ input[row].ThreatType \notin SUPPORTED_THREAT_TYPES
    /\ CSVWriter_write("error", [id |-> row] @@ input[row])
    /\ mpc' = "fill_update"
    /\ UNCHANGED <<envVars, mi, row, started, ret, line, qVars, shutdown_event,
                   workerVars, spc, sdata, sfinished, sfile, srows, statVars,
                   enqueued, classified, updates>>

\* ... then stat.update({'type': 'error'}).
MainUpdateError ==
    /\ mpc = "fill_update"
    /\ IOCStat_update(row, "error")
    /\ row' = row + 1
    /\ mpc' = "fill"
    /\ UNCHANGED <<envVars, mi, started, ret, line, qVars, shutdown_event,
                   workerVars, sinkVars, kpc, kdata, stat_finished, counters,
                   enqueued, classified, submitted>>

\* The reader is exhausted: main goes on to q.join().
MainEndOfInput ==
    /\ mpc = "fill"
    /\ row > Len(input)
    /\ mpc' = "join"
    /\ UNCHANGED <<envVars, mi, row, started, ret, line, qVars, shutdown_event,
                   workerVars, sinkVars, statVars, histVars>>

\* Mutant of MainJoin: main does not wait for the queue to be processed.
MainJoin_NoWait ==
    /\ mpc = "join"
    /\ mpc' = "shutdown"
    /\ UNCHANGED <<envVars, mi, row, started, ret, line, qVars, shutdown_event,
                   workerVars, sinkVars, statVars, histVars>>

\* q.join() returns when q.unfinished_tasks is 0.
MainJoin ==
    /\ mpc = "join"
    /\ q_unfinished = 0
    /\ mpc' = "shutdown"
    /\ UNCHANGED <<envVars, mi, row, started, ret, line, qVars, shutdown_event,
                   workerVars, sinkVars, statVars, histVars>>

\* shutdown_event.set().
\* Mutant of MainShutdown: the shutdown event is never set.
MainShutdown_NotSet ==
    /\ mpc = "shutdown"
    /\ mpc' = "close_join"
    /\ mi' = 1
    /\ UNCHANGED <<envVars, row, started, ret, line, qVars, shutdown_event,
                   workerVars, sinkVars, statVars, histVars>>

MainShutdown ==
    /\ mpc = "shutdown"
    /\ shutdown_event' = TRUE
    /\ mpc' = "close_join"
    /\ mi' = 1
    /\ UNCHANGED <<envVars, row, started, ret, line, qVars, workerVars,
                   sinkVars, statVars, histVars>>

\* Mutant of MainCloseJoin: close() does not wait for the pending rows.
MainCloseJoin_NoWait ==
    /\ mpc = "close_join"
    /\ mpc' = "close_finished"
    /\ UNCHANGED <<envVars, mi, row, started, ret, line, qVars, shutdown_event,
                   workerVars, sinkVars, statVars, histVars>>

\* CSVWriter.close(), first statement: self.queue.join().
\* Mutant of MainCloseJoin: close() waits for the queue to be empty, not for
\* the rows taken from it to be acknowledged.
MainCloseJoin_UntilEmpty ==
    /\ mpc = "close_join"
    /\ squeue[SinkOrder[mi]] = <<>>
    /\ mpc' = "close_finished"
    /\ UNCHANGED <<envVars, mi, row, started, ret, line, qVars, shutdown_event,
                   workerVars, sinkVars, statVars, histVars>>

MainCloseJoin ==
    /\ mpc = "close_join"
    /\ sunfinished[SinkOrder[mi]] = 0
    /\ mpc' = "close_finished"
    /\ UNCHANGED <<envVars, mi, row, started, ret, line, qVars, shutdown_event,
                   workerVars, sinkVars, statVars, histVars>>

\* CSVWriter.close(), second statement: self.finished = True.
MainCloseFinished ==
    /\ mpc = "close_finished"
    /\ sfinished' = [sfinished EXCEPT ![SinkOrder[mi]] = TRUE]
    /\ mpc' = "close_file"
    /\ UNCHANGED <<envVars, mi, row, started, ret, line, qVars, shutdown_event,
                   workerVars, spc, sdata, squeue, sunfinished, sfile, srows,
                   statVars, histVars>>

\* CSVWriter.close(), third statement: self.filewriter.close().
MainCloseFile ==
    /\ mpc = "close_file"
    /\ sfile' = [sfile EXCEPT ![SinkOrder[mi]] = "closed"]
    /\ IF mi < Len(SinkOrder)
       THEN mi' = mi + 1 /\ mpc' = "close_join"
       ELSE mi' = 1 /\ mpc' = "stats"
    /\ UNCHANGED <<envVars, row, started, ret, line, qVars, shutdown_event,
                   workerVars, spc, sdata, squeue, sunfinished, sfinished,
                   srows, statVars, histVars>>

Counter(key) ==
    CASE key = "ioc_total"   -> ioc_total
      [] key = "ioc_blocked" -> ioc_blocked
      [] key = "ioc_policy"  -> ioc_policy
      [] key = "ioc_error"   -> ioc_error

\* The log line calls stat.stats() four times; call number mi keeps the value
\* of StatKeys[mi].  One step of stats() copies one counter into ret, in the
\* order of StatKeys; the step that copies the last one returns ret.
MainStats ==
    /\ mpc = "stats"
    /\ LET have == IF Len(ret) = Len(StatKeys) THEN <<>> ELSE ret
           now  == Append(have, Counter(StatKeys[Len(have) + 1]))
       IN  /\ ret' = now
           /\ IF Len(now) < Len(StatKeys)
              THEN UNCHANGED <<mpc, mi, line>>
              ELSE /\ line' = Append(line, now[mi])
                   /\ IF mi < Len(StatKeys)
                      THEN mi' = mi + 1 /\ mpc' = "stats"
                      ELSE mi' = 1 /\ mpc' = "stat_join"
    /\ UNCHANGED <<envVars, row, started, qVars, shutdown_event, workerVars,
                   sinkVars, statVars, histVars>>

\* Mutant of MainStatJoin: IOCStat.close() does not wait for the pending events.
MainStatJoin_NoWait ==
    /\ mpc = "stat_join"
    /\ mpc' = "stat_finished"
    /\ UNCHANGED <<envVars, mi, row, started, ret, line, qVars, shutdown_event,
                   workerVars, sinkVars, statVars, histVars>>

\* IOCStat.close(), first statement: self.queue.join().
MainStatJoin ==
    /\ mpc = "stat_join"
    /\ stat_unfinished = 0
    /\ mpc' = "stat_finished"
    /\ UNCHANGED <<envVars, mi, row, started, ret, line, qVars, shutdown_event,
                   workerVars, sinkVars, statVars, histVars>>

\* IOCStat.close(), second statement: self.finished = True.
MainStatFinished ==
    /\ mpc = "stat_finished"
    /\ stat_finished' = TRUE
    /\ mpc' = "wait"
    /\ UNCHANGED <<envVars, mi, row, started, ret, line, qVars, shutdown_event,
                   workerVars, sinkVars, kpc, kdata, stat_queue, stat_unfinished,
                   counters, histVars>>

\* A thread counts in threading.active_count() from start() until its target
\* returns or raises.
Alive(pc) == pc \notin {"unstarted", "exited", "crashed"}

ActiveCount ==
    1 + Cardinality({w \in Workers : Alive(wpc[w])})
      + Cardinality({s \in Sinks : Alive(spc[s])})
      + (IF Alive(kpc) THEN 1 ELSE 0)

\* Mutant of MainFinished: main does not wait for the other threads.
MainFinished_NoWait ==
    /\ mpc = "wait"
    /\ mpc' = "done"
    /\ UNCHANGED <<envVars, mi, row, started, ret, line, qVars, shutdown_event,
                   workerVars, sinkVars, statVars, histVars>>

\* `while threading.active_count() > 1: continue` ends; log("Finished").
MainFinished ==
    /\ mpc = "wait"
    /\ ~(ActiveCount > 1)
    /\ mpc' = "done"
    /\ UNCHANGED <<envVars, mi, row, started, ret, line, qVars, shutdown_event,
                   workerVars, sinkVars, statVars, histVars>>

Main ==
    \/ MainCSVWriter \/ MainNoFieldnames \/ MainIOCStat \/ MainStartWorker
    \/ MainPut \/ MainWriteError \/ MainUpdateError \/ MainEndOfInput
    \/ MainJoin \/ MainShutdown
    \/ MainCloseJoin \/ MainCloseFinished \/ MainCloseFile
    \/ MainStats \/ MainStatJoin \/ MainStatFinished \/ MainFinished

\* ------------------------------------------------------------------- worker
\* A worker between two items is at "loop": at the test of
\* `while not shutdown_event.is_set()` or waiting in q.get(block=True,
\* timeout=0.05), from which queue.Empty and `continue` bring it back to the
\* test.  The loop test finds the event set: worker returns.
WorkerExit(w) ==
    /\ wpc[w] = "loop"
    /\ shutdown_event
    /\ wpc' = [wpc EXCEPT ![w] = "exited"]
    /\ UNCHANGED <<envVars, mainVars, qVars, shutdown_event, witem, wret,
                   sinkVars, statVars, histVars>>

\* Mutant of WorkerGet: the row is acknowledged (q.task_done) when it is
\* dequeued.
WorkerGet_AckAtDequeue(w) ==
    /\ wpc[w] = "loop"
    /\ q /= <<>>
    /\ witem' = [witem EXCEPT ![w] = Head(q)]
    /\ q' = Tail(q)
    /\ q_unfinished' = q_unfinished - 1
    /\ wpc' = [wpc EXCEPT ![w] = "do_work"]
    /\ UNCHANGED <<envVars, mainVars, shutdown_event, wret, sinkVars, statVars,
                   histVars>>

\* item = q.get(block=True, timeout=0.05) returns an item.
WorkerGet(w) ==
    /\ wpc[w] = "loop"
    /\ q /= <<>>
    /\ witem' = [witem EXCEPT ![w] = Head(q)]
    /\ q' = Tail(q)
    /\ wpc' = [wpc EXCEPT ![w] = "do_work"]
    /\ UNCHANGED <<envVars, mainVars, q_unfinished, shutdown_event, wret,
                   sinkVars, statVars, histVars>>

\* do_work up to its first call on a shared object: ret = rlcheck(...), the
\* test of ret['error'] and, in the else branch, item.update(...).  An
\* exception out of rlcheck leaves do_work and worker: the thread ends.
WorkerRlcheck(w) ==
    /\ wpc[w] = "do_work"
    /\ classified' = [classified EXCEPT ![witem[w].id] = @ + 1]
    /\ LET r == rlcheck(service[witem[w].Indicator]) IN
         IF r.raised
         THEN /\ wpc' = [wpc EXCEPT ![w] = "crashed"]
              /\ UNCHANGED <<witem, wret>>
         ELSE /\ wret' = [wret EXCEPT ![w] = r]
              /\ IF r.error /= 0
                 THEN /\ wpc' = [wpc EXCEPT ![w] = "error_update"]
                      /\ UNCHANGED witem
                 ELSE /\ wpc' = [wpc EXCEPT ![w] = "write"]
                      /\ witem' = [witem EXCEPT ![w] = Augment(@, r)]
    /\ UNCHANGED <<envVars, mainVars, qVars, shutdown_event, sinkVars,
                   statVars, enqueued, submitted, updates>>

\* Error branch: stat.update({'type': 'error'}) ...
WorkerErrorUpdate(w) ==
    /\ wpc[w] = "error_update"
    /\ IOCStat_update(witem[w].id, "error")
    /\ wpc' = [wpc EXCEPT ![w] = "error_write"]
    /\ UNCHANGED <<envVars, mainVars, qVars, shutdown_event, witem, wret,
                   sinkVars, kpc, kdata, stat_finished, counters, enqueued,
                   classified, submitted>>

\* Mutant of WorkerErrorWrite: the error branch counts the row and forgets to
\* write it.
WorkerErrorWrite_Forgotten(w) ==
    /\ wpc[w] = "error_write"
    /\ wpc' = [wpc EXCEPT ![w] = "task_done"]
    /\ UNCHANGED <<envVars, mainVars, qVars, shutdown_event, witem, wret,
                   sinkVars, statVars, histVars>>

\* ... then csv_error.write(item); do_work returns.
WorkerErrorWrite(w) ==
    /\ wpc[w] = "error_write"
    /\ CSVWriter_write("error", witem[w])
    /\ wpc' = [wpc EXCEPT ![w] = "task_done"]
    /\ UNCHANGED <<envVars, mainVars, qVars, shutdown_event, witem, wret,
                   spc, sdata, sfinished, sfile, srows, statVars, enqueued,
                   classified, updates>>

\* Mutant of Route: the two branches of `if ret['blocked'] == 1` are swapped.
Route_Swapped(r) == IF r.blocked = 1 THEN "policy" ELSE "blocked"

\* The sink and the event type of a successful result.
Route(r) == IF r.blocked = 1 THEN "blocked" ELSE "policy"

\* Else branch: csv_blocked.write(item) or csv_policy.write(item) ...
WorkerWrite(w) ==
    /\ wpc[w] = "write"
    /\ CSVWriter_write(Route(wret[w]), witem[w])
    /\ wpc' = [wpc EXCEPT ![w] = "update"]
    /\ UNCHANGED <<envVars, mainVars, qVars, shutdown_event, witem, wret,
                   spc, sdata, sfinished, sfile, srows, statVars, enqueued,
                   classified, updates>>

\* Mutant of WorkerUpdate: the event is tagged 'policy' in both branches.
WorkerUpdate_PolicyTag(w) ==
    /\ wpc[w] = "update"
    /\ IOCStat_update(witem[w].id, "policy")
    /\ wpc' = [wpc EXCEPT ![w] = "task_done"]
    /\ UNCHANGED <<envVars, mainVars, qVars, shutdown_event, witem, wret,
                   sinkVars, kpc, kdata, stat_finished, counters, enqueued,
                   classified, submitted>>

\* ... then stat.update({'type': 'blocked'}) or ({'type': 'policy'}); do_work
\* returns.
WorkerUpdate(w) ==
    /\ wpc[w] = "update"
    /\ IOCStat_update(witem[w].id, Route(wret[w]))
    /\ wpc' = [wpc EXCEPT ![w] = "task_done"]
    /\ UNCHANGED <<envVars, mainVars, qVars, shutdown_event, witem, wret,
                   sinkVars, kpc, kdata, stat_finished, counters, enqueued,
                   classified, submitted>>

\* q.task_done(), after do_work has returned.
WorkerTaskDone(w) ==
    /\ wpc[w] = "task_done"
    /\ q_unfinished' = q_unfinished - 1
    /\ wpc' = [wpc EXCEPT ![w] = "loop"]
    /\ witem' = [witem EXCEPT ![w] = NoItem]
    /\ wret' = [wret EXCEPT ![w] = NoRet]
    /\ UNCHANGED <<envVars, mainVars, q, shutdown_event, sinkVars, statVars,
                   histVars>>

Worker(w) ==
    \/ WorkerExit(w) \/ WorkerGet(w) \/ WorkerRlcheck(w)
    \/ WorkerErrorUpdate(w) \/ WorkerErrorWrite(w)
    \/ WorkerWrite(w) \/ WorkerUpdate(w) \/ WorkerTaskDone(w)

\* ------------------------------------------- CSVWriter.internal_writer
\* The writer between two rows is at "loop": at the test of
\* `while not self.finished` or waiting in self.queue.get(True, 1).  The loop
\* test finds self.finished set: internal_writer returns.
WriterExit(s) ==
    /\ spc[s] = "loop"
    /\ sfinished[s]
    /\ spc' = [spc EXCEPT ![s] = "exited"]
    /\ UNCHANGED <<envVars, mainVars, qVars, shutdown_event, workerVars,
                   sdata, squeue, sunfinished, sfinished, sfile, srows,
                   statVars, histVars>>

\* Mutant of WriterGet: the writer takes the newest pending row.
WriterGet_Lifo(s) ==
    /\ spc[s] = "loop"
    /\ squeue[s] /= <<>>
    /\ sdata' = [sdata EXCEPT ![s] = squeue[s][Len(squeue[s])]]
    /\ squeue' = [squeue EXCEPT ![s] = SubSeq(@, 1, Len(@) - 1)]
    /\ spc' = [spc EXCEPT ![s] = "writerow"]
    /\ UNCHANGED <<envVars, mainVars, qVars, shutdown_event, workerVars,
                   sunfinished, sfinished, sfile, srows, statVars, histVars>>

\* data = self.queue.get(True, 1) returns a row.
WriterGet(s) ==
    /\ spc[s] = "loop"
    /\ squeue[s] /= <<>>
    /\ sdata' = [sdata EXCEPT ![s] = Head(squeue[s])]
    /\ squeue' = [squeue EXCEPT ![s] = Tail(@)]
    /\ spc' = [spc EXCEPT ![s] = "writerow"]
    /\ UNCHANGED <<envVars, mainVars, qVars, shutdown_event, workerVars,
                   sunfinished, sfinished, sfile, srows, statVars, histVars>>

\* self.csvwriter.writerow(data).  On a closed file it raises ValueError,
\* which internal_writer does not catch: the thread ends.
WriterRow(s) ==
    /\ spc[s] = "writerow"
    /\ IF sfile[s] = "open"
       THEN /\ srows' = [srows EXCEPT ![s] = Append(@, sdata[s])]
            /\ spc' = [spc EXCEPT ![s] = "task_done"]
       ELSE /\ spc' = [spc EXCEPT ![s] = "crashed"]
            /\ UNCHANGED srows
    /\ UNCHANGED <<envVars, mainVars, qVars, shutdown_event, workerVars,
                   sdata, squeue, sunfinished, sfinished, sfile, statVars,
                   histVars>>

\* self.queue.task_done().
WriterTaskDone(s) ==
    /\ spc[s] = "task_done"
    /\ sunfinished' = [sunfinished EXCEPT ![s] = @ - 1]
    /\ sdata' = [sdata EXCEPT ![s] = NoItem]
    /\ spc' = [spc EXCEPT ![s] = "loop"]
    /\ UNCHANGED <<envVars, mainVars, qVars, shutdown_event, workerVars,
                   squeue, sfinished, sfile, srows, statVars, histVars>>

Writer(s) ==
    \/ WriterExit(s) \/ WriterGet(s) \/ WriterRow(s)
    \/ WriterTaskDone(s)

\* --------------------------------------------------- IOCStat.stat_keeper
\* The keeper between two events is at "loop": at the test of
\* `while not self.finished`, at the progress line (which changes nothing) or
\* waiting in self.queue.get(True, 1).  The loop test finds self.finished set:
\* stat_keeper returns.
KeeperExit ==
    /\ kpc = "loop"
    /\ stat_finished
    /\ kpc' = "exited"
    /\ UNCHANGED <<envVars, mainVars, qVars, shutdown_event, workerVars,
                   sinkVars, kdata, stat_queue, stat_unfinished, stat_finished,
                   counters, histVars>>

\* data = self.queue.get(True, 1) returns an event.
KeeperGet ==
    /\ kpc = "loop"
    /\ stat_queue /= <<>>
    /\ kdata' = Head(stat_queue)
    /\ stat_queue' = Tail(stat_queue)
    /\ kpc' = "count"
    /\ UNCHANGED <<envVars, mainVars, qVars, shutdown_event, workerVars,
                   sinkVars, stat_unfinished, stat_finished, counters, histVars>>

\* The if/elif chain on data['type']: the counter of the event's type += 1.
KeeperCount ==
    /\ kpc = "count"
    /\ ioc_blocked' = ioc_blocked + (IF kdata.type = "blocked" THEN 1 ELSE 0)
    /\ ioc_policy' = ioc_policy + (IF kdata.type = "policy" THEN 1 ELSE 0)
    /\ ioc_error' = ioc_error + (IF kdata.type = "error" THEN 1 ELSE 0)
    /\ kpc' = "total"
    /\ UNCHANGED <<envVars, mainVars, qVars, shutdown_event, workerVars,
                   sinkVars, kdata, stat_queue, stat_unfinished, stat_finished,
                   ioc_total, histVars>>

\* Mutant of KeeperTotal: the total is not incremented.
KeeperTotal_Forgotten ==
    /\ kpc = "total"
    /\ kpc' = "task_done"
    /\ UNCHANGED <<envVars, mainVars, qVars, shutdown_event, workerVars,
                   sinkVars, kdata, stat_queue, stat_unfinished, stat_finished,
                   counters, histVars>>

\* self.ioc_total += 1.
KeeperTotal ==
    /\ kpc = "total"
    /\ ioc_total' = ioc_total + 1
    /\ kpc' = "task_done"
    /\ UNCHANGED <<envVars, mainVars, qVars, shutdown_event, workerVars,
                   sinkVars, kdata, stat_queue, stat_unfinished, stat_finished,
                   ioc_blocked, ioc_policy, ioc_error, histVars>>

\* self.queue.task_done().
KeeperTaskDone ==
    /\ kpc = "task_done"
    /\ stat_unfinished' = stat_unfinished - 1
    /\ kdata' = NoData
    /\ kpc' = "loop"
    /\ UNCHANGED <<envVars, mainVars, qVars, shutdown_event, workerVars,
                   sinkVars, stat_queue, stat_finished, counters, histVars>>

Keeper ==
    \/ KeeperExit \/ KeeperGet \/ KeeperCount \/ KeeperTotal
    \/ KeeperTaskDone

\* ------------------------------------------------------------ specification
Next ==
    \/ Main
    \/ \E w \in Workers : Worker(w)
    \/ \E s \in Sinks : Writer(s)
    \/ Keeper

Spec == Init /\ [][Next]_vars

SpecAnyResponse == InitAnyResponse /\ [][Next]_vars

\* Every thread that can take a step eventually takes one: the interpreter
\* switches between runnable threads, and none of them holds a lock.
Fairness ==
    /\ WF_vars(Main)
    /\ \A w \in Workers : WF_vars(Worker(w))
    /\ \A s \in Sinks : WF_vars(Writer(s))
    /\ WF_vars(Keeper)

\* The runs with one worker, and the runs with more workers than rows.
InitFair == Init /\ (num_worker_threads = 1 \/ Len(input) < MaxRecords)

FairSpec == InitFair /\ [][Next]_vars /\ Fairness

\* ------------------------------------------------- vocabulary of the claims
\* How often the row with this id occurs in a sequence of rows.
Count(rows, id) == Cardinality({k \in 1..Len(rows) : rows[k].id = id})

Supported(i) == input[i].ThreatType \in SUPPORTED_THREAT_TYPES

Result(i) == rlcheck(service[input[i].Indicator])

\* Positions of main after q.join() has returned, and after the third
\* CSVWriter.close() has returned.
AfterJoin ==
    {"shutdown", "close_join", "close_finished", "close_file", "stats",
     "stat_join", "stat_finished", "wait", "done"}

AfterSinksClosed == {"stats", "stat_join", "stat_finished", "wait", "done"}

SinkIndex(s) == CHOOSE k \in 1..Len(SinkOrder) : SinkOrder[k] = s

\* main has called close() on CSVWriter s / the queue.join() of that close() has
\* returned.
CloseCalled(s) ==
    \/ mpc \in AfterSinksClosed
    \/ mpc \in {"close_join", "close_finished", "close_file"} /\ SinkIndex(s) <= mi

CloseJoined(s) ==
    \/ mpc \in AfterSinksClosed
    \/ mpc \in {"close_join", "close_finished", "close_file"} /\ SinkIndex(s) < mi
    \/ mpc \in {"close_finished", "close_file"} /\ SinkIndex(s) = mi

\* A worker holds the row with this id: dequeued, not yet acknowledged.
Holds(w, i) == wpc[w] \notin {"unstarted", "loop", "exited"} /\ witem[w].id = i

\* do_work has submitted the row to a sink and recorded its event.
Routed(i) == (\E s \in Sinks : Count(submitted[s], i) >= 1) /\ Len(updates[i]) >= 1

\* ------------------------------------------------------------------ claims

\* C1: when the run is finished (the three sinks are closed), every input row
\* has been written to exactly one of the three output files, exactly once.
C1_EveryRecordWrittenExactlyOnce ==
    mpc \in AfterSinksClosed =>
        \A i \in Ids :
            Count(srows["blocked"], i) + Count(srows["policy"], i)
                + Count(srows["error"], i) = 1

\* A finished run of two workers over a full input that filled two files.
C1_Witness ==
    /\ mpc = "done"
    /\ num_worker_threads = MaxWorkers
    /\ Len(input) = MaxRecords
    /\ Cardinality({s \in Sinks : srows[s] /= <<>>}) >= 2

\* C2: the acknowledgments given to q never outnumber the rows whose do_work has
\* returned, so q.join() returns only when every enqueued row has been dequeued
\* and routed (submitted to a sink, with its stat event).
C2_JoinReturnsOnlyAfterRouting ==
    /\ Cardinality({i \in {enqueued[k] : k \in 1..Len(enqueued)} : ~Routed(i)}) <= q_unfinished
    /\ mpc \in AfterJoin =>
          /\ q = <<>>
          /\ \A k \in 1..Len(enqueued) : Routed(enqueued[k])
          /\ \A w \in Workers, i \in Ids : ~Holds(w, i)

\* q.join() has just returned on a queue that two workers drained.
C2_Witness ==
    /\ mpc = "shutdown"
    /\ Len(enqueued) = MaxRecords
    /\ num_worker_threads = MaxWorkers

\* The coordinator states of the design: Idle, Filling, Draining, ShuttingDown,
\* Done, numbered 0..4 (a run whose output file cannot be opened stays Idle).
Phase(pc) ==
    CASE pc \in {"CSVWriter", "IOCStat", "threads", "aborted"} -> 0
      [] pc \in {"fill", "fill_update"} -> 1
      [] pc = "join" -> 2
      [] pc = "done" -> 4
      [] OTHER -> 3

\* The shutdown signal is set, or the close() of some sink has started.
ShutdownBegun ==
    \/ shutdown_event
    \/ \E s \in Sinks : CloseCalled(s) \/ sfinished[s] \/ sfile[s] = "closed"

Drained ==
    /\ q = <<>>
    /\ \A w \in Workers : wpc[w] \in {"unstarted", "loop", "exited"}

\* C3: the coordinator goes through Idle, Filling, Draining, ShuttingDown, Done
\* one step at a time; the shutdown signal is set and the sinks' close() starts
\* only when no row is in the work queue or held by a worker; and no row is
\* submitted to a sink whose close() has been called.
C3_ShutdownOnlyAfterDrain ==
    /\ [](ShutdownBegun => Drained /\ Phase(mpc) >= 3)
    /\ [][/\ Phase(mpc') \in {Phase(mpc), Phase(mpc) + 1}
          /\ \A s \in Sinks : CloseCalled(s) => submitted'[s] = submitted[s]]_vars

\* The first close() has started after two workers routed a full input.
C3_Witness ==
    /\ mpc = "close_join" /\ mi = 1
    /\ shutdown_event
    /\ num_worker_threads = MaxWorkers
    /\ \A i \in Ids : classified[i] = 1
    /\ Len(input) = MaxRecords

\* C4: once the queue.join() of a sink's close() has returned, every row given
\* to write() has been written to the file; the file is closed only then; and
\* no row is written, or attempted, on the closed file.
C4_CloseWritesEverythingFirst ==
    /\ [](\A s \in Sinks :
            /\ CloseJoined(s) =>
                  /\ srows[s] = submitted[s]
                  /\ squeue[s] = <<>> /\ spc[s] \in {"loop", "exited"}
            /\ sfile[s] = "closed" => CloseJoined(s)
            /\ spc[s] /= "crashed")
    /\ [][\A s \in Sinks : sfile[s] = "closed" => srows'[s] = srows[s]]_vars

\* The error file is closed with two rows in it, one written for main and one
\* for a worker.
C4_Witness ==
    /\ sfile["error"] = "closed"
    /\ Len(srows["error"]) = 2
    /\ \E k \in 1..2 : ~Supported(srows["error"][k].id)
    /\ \E k \in 1..2 : Supported(srows["error"][k].id)

\* C5: total = blocked + policy + error whenever stat_keeper is not between the
\* two increments of one event, and no counter ever decreases.
C5_TotalIsSumAndMonotone ==
    /\ [](kpc /= "total" => ioc_total = ioc_blocked + ioc_policy + ioc_error)
    /\ [][/\ ioc_total' >= ioc_total /\ ioc_blocked' >= ioc_blocked
          /\ ioc_policy' >= ioc_policy /\ ioc_error' >= ioc_error]_vars

\* The run is complete with a blocked and an error event applied.
C5_Witness ==
    /\ mpc = "done"
    /\ ioc_total = 2 /\ ioc_blocked = 1 /\ ioc_error = 1

\* C6: every snapshot stats() returns satisfies total = blocked + policy +
\* error (ret holds the four values in the order of StatKeys).
C6_SnapshotIsConsistent ==
    Len(ret) = Len(StatKeys) => ret[1] = ret[2] + ret[3] + ret[4]

\* The sink and event type the design gives a classified row: error if the
\* result reports an error, else blocked if blocked is true, else policy.
Expected(i) ==
    LET r == Result(i) IN
        IF r.raised THEN "none"
        ELSE IF r.error /= 0 THEN "error"
        ELSE IF r.blocked = 1 THEN "blocked"
        ELSE "policy"

\* A worker is inside do_work for the row.
InDoWork(i) == \E w \in Workers : Holds(w, i) /\ wpc[w] /= "task_done"

\* C7: a row for which rlcheck returned a result is submitted only to the sink
\* of that result and with only that event, at most once each and exactly once
\* each when do_work has returned; it is classified once (no retry); and a
\* worker ends early only when rlcheck itself raised.
C7_RoutedByClassifierResult ==
    /\ \A i \in Ids : Supported(i) /\ ~Result(i).raised =>
          /\ \A s \in Sinks \ {Expected(i)} : Count(submitted[s], i) = 0
          /\ Count(submitted[Expected(i)], i) <= 1
          /\ updates[i] \in {<<>>, <<Expected(i)>>}
          /\ classified[i] <= 1
          /\ classified[i] = 1 /\ ~InDoWork(i) =>
                /\ Count(submitted[Expected(i)], i) = 1
                /\ updates[i] = <<Expected(i)>>
    /\ \A w \in Workers : wpc[w] = "crashed" => Result(witem[w].id).raised

\* One worker got Unauthorized for the first row, routed it to the error sink,
\* and went on to route the next row to the blocked sink.
C7_Witness ==
    /\ num_worker_threads = 1
    /\ Len(input) = 2
    /\ input[1].Indicator = "unauthorized"
    /\ Count(submitted["error"], 1) = 1 /\ updates[1] = <<"error">>
    /\ Count(submitted["blocked"], 2) = 1 /\ updates[2] = <<"blocked">>

\* How often an id occurs in a sequence of ids.
Times(ids, i) == Cardinality({k \in 1..Len(ids) : ids[k] = i})

\* C8: a row of unsupported ThreatType is never put on q, never classified and
\* never submitted to the blocked or policy sink; once main has handled it, it
\* has been submitted to the error sink once, with one 'error' event.  A row of
\* supported ThreatType is put on q once.
C8_UnsupportedRowsBypassTheQueue ==
    \A i \in Ids :
        IF Supported(i)
        THEN /\ Times(enqueued, i) <= 1
             /\ row > i => Times(enqueued, i) = 1
        ELSE /\ Times(enqueued, i) = 0
             /\ Count(q, i) = 0
             /\ \A w \in Workers : ~Holds(w, i)
             /\ classified[i] = 0
             /\ Count(submitted["blocked"], i) = 0
             /\ Count(submitted["policy"], i) = 0
             /\ Count(submitted["error"], i) <= 1
             /\ updates[i] \in {<<>>, <<"error">>}
             /\ row > i => Count(submitted["error"], i) = 1 /\ updates[i] = <<"error">>

\* main has read an input with a supported and an unsupported row to its end.
C8_Witness ==
    /\ mpc = "join"
    /\ \E i \in Ids : Supported(i)
    /\ \E i \in Ids : ~Supported(i) /\ Count(submitted["error"], i) = 1

\* C9: a classifier call that raises does not end the worker: until the
\* shutdown signal every started worker is alive.
C9_FaultDoesNotKillTheWorker ==
    \A w \in Workers : w <= started /\ ~shutdown_event => Alive(wpc[w])

\* The sink of a row, as a function of the input alone.
ExpectedSink(i) == IF Supported(i) THEN Expected(i) ELSE "error"

\* The row as do_work submits it.
ExpectedRow(i) ==
    IF ExpectedSink(i) \in {"blocked", "policy"}
    THEN Augment([id |-> i] @@ input[i], Result(i))
    ELSE [id |-> i] @@ input[i]

ExpectedIds(s) == {i \in Ids : ExpectedSink(i) = s}

\* C10: once the aggregator is closed, the four counters and the set of rows
\* of each output file are functions of the input alone: the same for every
\* number of workers and every interleaving.
C10_OutcomeIsAFunctionOfTheInput ==
    mpc \in {"wait", "done"} =>
        /\ ioc_total = Len(input)
        /\ ioc_blocked = Cardinality(ExpectedIds("blocked"))
        /\ ioc_policy = Cardinality(ExpectedIds("policy"))
        /\ ioc_error = Cardinality(ExpectedIds("error"))
        /\ \A s \in Sinks :
              {srows[s][k] : k \in 1..Len(srows[s])}
                  = {ExpectedRow(i) : i \in ExpectedIds(s)}

\* The aggregator is closed after the largest pool classified a full input
\* with a policy row in it.
C10_Witness ==
    /\ mpc = "wait"
    /\ num_worker_threads = MaxWorkers
    /\ ioc_total = MaxRecords
    /\ ioc_policy >= 1

\* ------------------------------------------------------------------- C11
AllOpened == mpc = "IOCStat"

Responds ==
    \A i \in Ids : Supported(i) => ~service[input[i].Indicator].raises

Terminated ==
    /\ mpc = "done"
    /\ q = <<>> /\ q_unfinished = 0
    /\ shutdown_event
    /\ \A s \in Sinks : sfinished[s] /\ sfile[s] = "closed" /\ spc[s] = "exited"
    /\ stat_finished /\ kpc = "exited"
    /\ \A w \in Workers : wpc[w] \in {"unstarted", "exited"}

\* C11: under fair scheduling, once the three output files are open and the
\* classifier answers every call, the run terminates: the queue is drained, the
\* shutdown event is set, the sinks and the aggregator are closed, every
\* thread has exited and main has logged Finished.
C11_RunTerminates == (AllOpened /\ Responds) ~> Terminated

C11_Witness ==
    /\ Terminated
    /\ Responds
    /\ Len(input) = MaxRecords
    /\ \E i \in Ids : Supported(i)
    /\ \E w \in Workers : wpc[w] = "exited"

\* ------------------------------------------------------------------- C12
OpenFailed == mpc = "aborted" /\ Len(input) > 0

\* C12: when one of the three output files cannot be opened, the run is aborted
\* before any worker starts: no worker and no keeper thread is started, no row
\* is enqueued or classified, and no thread of the run is left running, the
\* writer thread of a file opened earlier included.
C12_OpenFailureLeavesNoThread ==
    OpenFailed =>
        /\ \A w \in Workers : wpc[w] = "unstarted"
        /\ kpc = "unstarted"
        /\ enqueued = <<>>
        /\ \A i \in Ids : classified[i] = 0
        /\ \A s \in Sinks : ~Alive(spc[s])

\* ------------------------------------------------------------------- C13
\* C13: when the run has finished, an output file that received no row is not
\* left behind; with no row of a supported type there is no blocked file and
\* no policy file, and the error file holds every input row.
C13_EmptySinkLeavesNoFile ==
    mpc = "done" =>
        /\ \A s \in Sinks : srows[s] = <<>> => sfile[s] = "absent"
        /\ (\A i \in Ids : ~Supported(i)) =>
              /\ sfile["blocked"] = "absent"
              /\ sfile["policy"] = "absent"
              /\ Len(srows["error"]) = Len(input)

\* ------------------------------------------------------------------- C14
AllExited ==
    /\ \A w \in Workers : ~Alive(wpc[w])
    /\ \A s \in Sinks : spc[s] = "exited"
    /\ kpc = "exited"

\* C14: main sets the shutdown event before it closes a sink; it closes the
\* blocked, the policy and the error sink in that order, each close ending
\* with every submitted row written; it reads the counters for the final log
\* line only when the three files are closed; it closes the aggregator only
\* after the log line; and it logs Finished only when every worker, every
\* writer and the keeper has exited.
C14_ShutdownOrder ==
    /\ \A s \in Sinks : sfinished[s] \/ sfile[s] = "closed" => shutdown_event
    /\ \A s, t \in Sinks :
          SinkIndex(s) < SinkIndex(t) /\ sfinished[t] => sfile[s] = "closed"
    /\ \A s \in Sinks : sfinished[s] => srows[s] = submitted[s]
    /\ ret /= <<>> \/ line /= <<>> => \A s \in Sinks : sfile[s] = "closed"
    /\ stat_finished => Len(line) = Len(StatKeys)
    /\ mpc = "done" => stat_finished /\ AllExited

\* Finished is logged after MaxWorkers workers handled a full input.
C14_Witness ==
    /\ mpc = "done"
    /\ Len(line) = Len(StatKeys)
    /\ num_worker_threads = MaxWorkers
    /\ \A w \in Workers : wpc[w] = "exited"
    /\ Len(input) = MaxRecords

\* ------------------------------------------------------------------- C15
\* The row the writer has taken from its queue and not yet written.
InHand(s) == IF spc[s] = "writerow" THEN <<sdata[s]>> ELSE <<>>

\* C15: for each sink, the rows written, then the row the writer holds, then
\* the rows pending are the rows submitted, in the order of the write() calls;
\* and the file grows by one row at a time, at its end.
C15_WrittenInSubmissionOrder ==
    /\ [](\A s \in Sinks : submitted[s] = srows[s] \o InHand(s) \o squeue[s])
    /\ [][\A s \in Sinks :
            \/ srows'[s] = srows[s]
            \/ /\ Len(srows'[s]) = Len(srows[s]) + 1
               /\ SubSeq(srows'[s], 1, Len(srows[s])) = srows[s]]_vars

\* Main submitted MaxRecords rows of unsupported type to the error sink and the
\* writer has written them all.
C15_Witness ==
    /\ Len(srows["error"]) = MaxRecords
    /\ Len(enqueued) = 0
    /\ srows["error"] = submitted["error"]
    /\ spc["error"] = "loop"
    /\ mpc = "join"

\* ------------------------------------------------------------------- C16
\* Main is at a statement that uses the file handle of sink s: the open() and
\* writeheader() of the constructor, or the filewriter.close() of close().
MainAtHandle(s) ==
    /\ \/ mpc = "CSVWriter" /\ Len(input) > 0
       \/ mpc = "close_file"
    /\ SinkOrder[mi] = s

\* The writer thread of sink s is at its writerow().
WriterAtHandle(s) == spc[s] = "writerow"

\* C16: for each sink, rows get into the file only by a writerow() of that
\* sink's one writer thread; write() only appends to the pending queue; main
\* and the writer are never at the handle at the same time; the writer runs
\* only once the constructor has opened the file; and the writer is past its
\* last writerow() when the handle is closed.
C16_OneThreadAtTheHandle ==
    /\ [](\A s \in Sinks :
            /\ ~(MainAtHandle(s) /\ WriterAtHandle(s))
            /\ spc[s] /= "unstarted" => sfile[s] /= "absent"
            /\ sfile[s] = "closed" => spc[s] \in {"loop", "exited"})
    /\ [][\A s \in Sinks :
            /\ srows'[s] /= srows[s] =>
                  /\ WriterAtHandle(s) /\ spc'[s] = "task_done"
                  /\ sfile[s] = "open"
                  /\ srows'[s] = Append(srows[s], sdata[s])
            /\ submitted'[s] /= submitted[s] =>
                  /\ squeue'[s] = Append(squeue[s], submitted'[s][Len(submitted'[s])])
                  /\ srows'[s] = srows[s] /\ sfile'[s] = sfile[s]]_vars

\* The blocked file is closed with a worker's row in it and its writer has
\* exited.
C16_Witness ==
    /\ sfile["blocked"] = "closed"
    /\ Len(srows["blocked"]) >= 1
    /\ spc["blocked"] = "exited"
    /\ mpc = "close_join"

\* ------------------------------------------------------------------- C17
\* The response that the classifier gave for row i.
Response(i) == service[input[i].Indicator]

\* The response names a category of the blocked set, or a risk level of 8 or
\* more.
MustBlock(r) ==
    \/ r.hasCategories /\ \E k \in 1..Len(r.categories) :
                              r.categories[k].id \in {17, 18, 43, 44}
    \/ r.hasLevel /\ r.level >= 8

\* The sinks that hold a row with this id among the rows submitted.
SubmittedTo(i) ==
    {s \in Sinks : \E k \in 1..Len(submitted[s]) : submitted[s][k].id = i}

\* C17: for a 200 response, rlcheck returns blocked = 1 exactly when a returned
\* category id is one of 17, 18, 43, 44 or the returned risk level is 8 or
\* more, and do_work submits the row to the blocked sink in that case and to
\* the policy sink otherwise.
C17_BlockedIffCategoryOrLevel ==
    /\ \A w \in Workers :
          wpc[w] \in {"write", "update"}
          /\ Response(witem[w].id).status_code = 200 =>
              (wret[w].blocked = 1 <=> MustBlock(Response(witem[w].id)))
    /\ \A i \in Ids :
          Supported(i) /\ ~Response(i).raises
          /\ Response(i).status_code = 200 =>
              SubmittedTo(i) \subseteq
                  {IF MustBlock(Response(i)) THEN "blocked" ELSE "policy"}

\* A row whose response has risk level 8 and no category of the blocked set
\* is in the blocked file.
C17_Witness ==
    \E k \in 1..Len(srows["blocked"]) :
        LET r == Response(srows["blocked"][k].id) IN
            /\ r.status_code = 200
            /\ r.hasLevel /\ r.level = 8
            /\ \A c \in 1..Len(r.categories) :
                  r.categories[c].id \notin {17, 18, 43, 44}
            /\ Len(r.categories) = MaxCategories

\* ------------------------------------------------------------------- C18
\* The names of the categories of a response, in the order returned, with
\* ", " between two names.
RECURSIVE NamesJoined(_)
NamesJoined(cats) ==
    IF Len(cats) = 0 THEN ""
    ELSE IF Len(cats) = 1 THEN cats[1].name
    ELSE NamesJoined(SubSeq(cats, 1, Len(cats) - 1)) \o ", " \o cats[Len(cats)].name

\* The worker has submitted its row to a sink and not yet let go of it.
AfterSubmit(w) ==
    \/ wpc[w] = "update"
    \/ wpc[w] = "task_done"

IsPrefix(a, b) == Len(a) <= Len(b) /\ SubSeq(b, 1, Len(a)) = a

\* C18: a row submitted to the blocked or the policy sink has the fields of the
\* input row unchanged, BC_RiskLevel = the level of the response (0 without
\* one) and BC_Category = the category names of the response joined with
\* ", "; a row submitted to the error sink has the fields of the input row and
\* nothing else; a row once submitted stays as submitted, and a worker does
\* not change its item after submitting it.
C18_SubmittedRowsCarryTheDerivedFields ==
    /\ [](/\ \A s \in {"blocked", "policy"} : \A k \in 1..Len(submitted[s]) :
               LET item == submitted[s][k]
                   r == Response(item.id)
               IN  /\ DOMAIN item = DOMAIN input[item.id]
                                      \cup {"id", "BC_RiskLevel", "BC_Category"}
                   /\ \A f \in DOMAIN input[item.id] : item[f] = input[item.id][f]
                   /\ item.BC_RiskLevel = (IF r.hasLevel THEN r.level ELSE 0)
                   /\ item.BC_Category = NamesJoined(r.categories)
          /\ \A k \in 1..Len(submitted["error"]) :
               LET item == submitted["error"][k] IN
                   /\ DOMAIN item = DOMAIN input[item.id] \cup {"id"}
                   /\ \A f \in DOMAIN input[item.id] : item[f] = input[item.id][f])
    /\ [][/\ \A s \in Sinks : IsPrefix(submitted[s], submitted'[s])
          /\ \A w \in Workers :
               AfterSubmit(w) => witem'[w] = witem[w] \/ wpc'[w] = "loop"]_vars

\* A row is in the blocked file with its level and the two category names of
\* its response.
C18_Witness ==
    \E k \in 1..Len(srows["blocked"]) :
        /\ srows["blocked"][k].BC_Category = "Technology/Internet, Phishing"
        /\ srows["blocked"][k].BC_RiskLevel = 3
        /\ srows["blocked"][k].Indicator = "probe"

\* ------------------------------------------------------------------- C19
\* C19: the four values of the final log line are the totals of the run: the
\* number of input rows and the numbers of rows submitted to the blocked, the
\* policy and the error sink.
C19_FinalSnapshotIsComplete ==
    Len(line) = Len(StatKeys) =>
        /\ line[1] = Len(input)
        /\ line[2] = Len(submitted["blocked"])
        /\ line[3] = Len(submitted["policy"])
        /\ line[4] = Len(submitted["error"])

\* ------------------------------------------------------------------- C20
\* C20: when main has logged Finished, each counter is the number of rows in
\* the file of the same name and the total is the number of input rows; and a
\* row that has both its stat event and its sink has the event tagged with
\* the name of that sink.
C20_CountersMatchTheFiles ==
    /\ mpc = "done" =>
          /\ ioc_blocked = Len(srows["blocked"])
          /\ ioc_policy = Len(srows["policy"])
          /\ ioc_error = Len(srows["error"])
          /\ ioc_total = Len(input)
    /\ \A i \in Ids : \A s \in SubmittedTo(i) :
          updates[i] /= <<>> => updates[i] = <<s>>

\* Finished is logged with a row in two of the three files.
C20_Witness ==
    /\ mpc = "done"
    /\ ioc_blocked = 1 /\ Len(srows["blocked"]) = 1
    /\ ioc_error = 1 /\ Len(srows["error"]) = 1
    /\ ioc_total = MaxRecords

\* ------------------------------------------------------------------- C21
\* The worker has the result of rlcheck for its item.
HasResult(w) ==
    wpc[w] \in {"write", "update", "error_update", "error_write", "task_done"}

\* C21: rlcheck returns error 0 only for a response with status 200, and a row
\* of a supported type is submitted to the blocked or the policy sink only
\* when the response for it had status 200.
C21_ErrorZeroOnlyForStatus200 ==
    /\ \A w \in Workers :
          HasResult(w) /\ wret[w].error = 0 =>
              Response(witem[w].id).status_code = 200
    /\ \A i \in Ids :
          Supported(i) /\ SubmittedTo(i) \cap {"blocked", "policy"} /= {} =>
              ~Response(i).raises /\ Response(i).status_code = 200

====
